---- MODULE Spec2Model ----
(***************************************************************************)
(* Model of the Socket.IO extraction server (src/src/server.ts).           *)
(*                                                                         *)
(* One run = one invocation of the async 'startExtraction' handler.  The   *)
(* handler runs to completion between awaits (Node's event loop), so one   *)
(* action models one such segment: from the arrival of the command, or     *)
(* from the settling of the awaited capability promise, up to the next     *)
(* await or the end of the handler.                                        *)
(*                                                                         *)
(* socket.emit calls are recorded per connection, in call order, each      *)
(* tagged with the handler invocation (run) that made it.                  *)
(***************************************************************************)
EXTENDS Integers, Sequences, FiniteSets, TLC

\* ---------------------------------------------------------------- bounds
MaxRuns == 2      \* startExtraction commands handled in one behaviour
MaxStages == 2    \* modules requested in one behaviour, over all its commands
MaxLen == 3       \* modules in the list of a command that is the only one handled

\* ---------------------------------------------------------------- inputs
Conns == {"s1", "s2"}

\* ModuleName values a client can send; "other" is a name no case matches.
ModuleNames == {"full-pdf", "tables", "imaging", "harmonizer", "citations", "other"}

RECURSIVE SeqsUpTo(_, _)
SeqsUpTo(S, n) ==
  IF n = 0 THEN {<<>>}
  ELSE LET shorter == SeqsUpTo(S, n - 1)
       IN shorter \cup {Append(s, x) : s \in {t \in shorter : Len(t) = n - 1}, x \in S}

LongestList == IF MaxLen > MaxStages THEN MaxLen ELSE MaxStages

ModuleLists == SeqsUpTo(ModuleNames, LongestList)

ListsUpTo == [k \in 0..LongestList |-> {modules \in ModuleLists : Len(modules) <= k}]

\* Results the extraction modules can resolve with (they are opaque to the
\* server, which does not validate them).  quality_score is kept in tenths:
\* 7 stands for 0.7.  The last value of TableResults, HarmonizeResults and
\* CitationResults lacks the property the case reads (tables, timepoints,
\* citations).
FullPdfResults ==
  { [study |-> 1],
    [study |-> 1, outcomes |-> 1],
    [study |-> 2, outcomes |-> 2] }
TableResults == { [tables |-> <<>>], [tables |-> <<1>>], [figures |-> <<>>] }
ImagingResults == { [metrics |-> 1] }
HarmonizeResults ==
  { [harmonized |-> [id |-> 1, timepoints |-> <<>>]],
    [harmonized |-> [id |-> 2, timepoints |-> <<1>>]],
    [harmonized |-> [id |-> 3]] }
CitationResults ==
  { [citations |-> <<>>],
    [citations |-> <<[quality_score |-> 7]>>],
    [citations |-> <<[quality_score |-> 8], [quality_score |-> 6]>>],
    [count |-> 0] }

ResultsOf(m) ==
  CASE m = "full-pdf" -> FullPdfResults
    [] m = "tables" -> TableResults
    [] m = "imaging" -> ImagingResults
    [] m = "harmonizer" -> HarmonizeResults
    [] m = "citations" -> CitationResults
    [] OTHER -> {}

\* ----------------------------------------------------------------- state
VARIABLES
  conn,      \* conn[c]: "none" | "connected" | "disconnected"
  runs,      \* runs[r]: one record per startExtraction handler invocation
  emitted    \* emitted[c]: the socket.emit calls made on c's socket, in order

vars == <<conn, runs, emitted>>

\* -------------------------------------------------------------- helpers
None == <<>>

\* A JavaScript number: the fraction num/den, or NaN, or Infinity.
Rat(n, d) == [kind |-> "finite", num |-> n, den |-> d]
NaN == [kind |-> "NaN", num |-> 0, den |-> 0]
Infinity == [kind |-> "Infinity", num |-> 0, den |-> 0]
RatLeq(a, b) == a.num * b.den <= b.num * a.den
RatEq(a, b) == a.num * b.den = b.num * a.den

\* JavaScript a / b on non-negative numbers: 0/0 is NaN, x/0 is Infinity.
JsDiv(a, b) ==
  IF b = 0 THEN (IF a = 0 THEN NaN ELSE Infinity) ELSE Rat(a, b)

Min(a, b) == IF a <= b THEN a ELSE b

\* result.<f> = v
SetField(obj, f, v) ==
  [k \in DOMAIN obj \cup {f} |-> IF k = f THEN v ELSE obj[k]]

\* result.<f> = undefined: the property then reads as undefined and is left
\* out when the object is serialised, like one that was never set.
SetUndefined(obj, f) ==
  [k \in DOMAIN obj \ {f} |-> obj[k]]

\* Object.assign(target, source)
ObjectAssign(target, source) ==
  [k \in DOMAIN target \cup DOMAIN source |->
     IF k \in DOMAIN source THEN source[k] ELSE target[k]]

\* socket.emit(type, payload) made by run r
Ev(r, type, module, percent, data) ==
  [run |-> r, type |-> type, module |-> module, percent |-> percent, data |-> data]

\* ------------------------------------------- the startExtraction handler
\* A progress computation that counts the modules still to run.
BasePercentRemaining(completedModules, totalModules) ==
  Rat(10 * totalModules + (totalModules - completedModules) * 80, totalModules)

\* const basePercent = 10 + (completedModules / totalModules) * 80
BasePercent(completedModules, totalModules) ==
  Rat(10 * totalModules + completedModules * 80, totalModules)

\* if (result.outcomes): the outcomes the modules produce are objects, so
\* the test is true exactly when the field has been set.
HasOutcomes(result) == "outcomes" \in DOMAIN result

\* The module the loop is at: modules[completedModules] (0-based in the code).
CurrentModule(run) == run.modules[run.completedModules + 1]

\* A metadata computation that counts a score of 0.7 as valid.
CitationsMetadataAtLeast(citations) ==
  [ total_extracted |-> Len(citations),
    valid_citations |->
      Cardinality({i \in 1..Len(citations) : citations[i].quality_score >= 7}),
    average_quality |->
      LET RECURSIVE Reduce(_)
          Reduce(n) == IF n = 0 THEN 0 ELSE Reduce(n - 1) + citations[n].quality_score
      IN JsDiv(Reduce(Len(citations)), Len(citations)),
    duplicates_removed |-> 0 ]

\* citations_metadata built from citationResult.citations
CitationsMetadata(citations) ==
  [ total_extracted |-> Len(citations),
    valid_citations |->
      Cardinality({i \in 1..Len(citations) : citations[i].quality_score > 7}),
    average_quality |->
      LET RECURSIVE Reduce(_)
          Reduce(n) == IF n = 0 THEN 0 ELSE Reduce(n - 1) + citations[n].quality_score
      IN JsDiv(Reduce(Len(citations)), Len(citations)),
    duplicates_removed |-> 0 ]

\* A merge that stores the harmonized outcomes under a camel-case key.
AfterAwaitCamelKey(m, result, res) ==
  CASE m = "full-pdf" ->
         [result |-> ObjectAssign(result, res), data |-> res, thrown |-> FALSE]
    [] m = "tables" ->
         IF "tables" \in DOMAIN res
           THEN [result |-> SetField(result, "tables", res.tables),
                 data |-> [tables |-> res.tables, count |-> Len(res.tables)],
                 thrown |-> FALSE]
           ELSE [result |-> SetUndefined(result, "tables"),
                 data |-> None, thrown |-> TRUE]
    [] m = "imaging" ->
         [result |-> SetField(result, "imaging", res.metrics), data |-> res.metrics,
          thrown |-> FALSE]
    [] m = "harmonizer" ->
         [result |-> SetField(result, "harmonizedOutcomes", res.harmonized),
          data |-> res.harmonized,
          thrown |-> "timepoints" \notin DOMAIN res.harmonized]
    [] m = "citations" ->
         IF "citations" \in DOMAIN res
           THEN [result |->
                   SetField(SetField(result, "citations", res.citations),
                            "citations_metadata", CitationsMetadata(res.citations)),
                 data |-> [count |-> Len(res.citations),
                           citations |-> SubSeq(res.citations, 1,
                                                Min(5, Len(res.citations)))],
                 thrown |-> FALSE]
           ELSE [result |-> SetUndefined(result, "citations"),
                 data |-> None, thrown |-> TRUE]

\* The statements of a case that follow its await, applied to the value the
\* module resolved with: the new result, the moduleComplete payload, and
\* whether a statement threw (a TypeError from reading .length of undefined),
\* in which case the assignments made before it stand.
AfterAwait(m, result, res) ==
  CASE m = "full-pdf" ->
         [result |-> ObjectAssign(result, res), data |-> res, thrown |-> FALSE]
    [] m = "tables" ->
         IF "tables" \in DOMAIN res
           THEN [result |-> SetField(result, "tables", res.tables),
                 data |-> [tables |-> res.tables, count |-> Len(res.tables)],
                 thrown |-> FALSE]
           ELSE [result |-> SetUndefined(result, "tables"),
                 data |-> None, thrown |-> TRUE]
    [] m = "imaging" ->
         [result |-> SetField(result, "imaging", res.metrics), data |-> res.metrics,
          thrown |-> FALSE]
    [] m = "harmonizer" ->
         [result |-> SetField(result, "harmonized_outcomes", res.harmonized),
          data |-> res.harmonized,
          thrown |-> "timepoints" \notin DOMAIN res.harmonized]
    [] m = "citations" ->
         IF "citations" \in DOMAIN res
           THEN [result |->
                   SetField(SetField(result, "citations", res.citations),
                            "citations_metadata", CitationsMetadata(res.citations)),
                 data |-> [count |-> Len(res.citations),
                           citations |-> SubSeq(res.citations, 1,
                                                Min(5, Len(res.citations)))],
                 thrown |-> FALSE]
           ELSE [result |-> SetUndefined(result, "citations"),
                 data |-> None, thrown |-> TRUE]

\* The call a case makes and awaits, and what becomes of it.  Every extractor gets the
\* base64 document; the harmonizer gets result.outcomes.
Invoke(run, m, arg) ==
  [run EXCEPT !.pc = "await",
              !.calls = Append(@, [module |-> m, arg |-> arg,
                                   outcome |-> "pending", value |-> None,
                                   threw |-> FALSE])]

\* The awaited promise settles ("fulfilled" with a value, or "rejected") and
\* the handler resumes.
Settled(run, outcome, value) ==
  [run EXCEPT !.pc = "running",
              !.calls[Len(run.calls)].outcome = outcome,
              !.calls[Len(run.calls)].value = value]

\* A harmonizer case without the if (result.outcomes) test.
EnterCaseAlwaysHarmonize(id, run, out) ==
  LET m == CurrentModule(run) IN
  CASE m \in {"full-pdf", "tables", "imaging", "citations"} ->
         [run |-> Invoke(run, m, "pdfBase64"),
          out |-> Append(out, Ev(id, "moduleStart", m, None, None))]
    [] m = "harmonizer" ->
         [run |-> Invoke(run, m, IF HasOutcomes(run.result)
                                   THEN run.result.outcomes ELSE 0),
          out |-> Append(out, Ev(id, "moduleStart", m, None, None))]
    [] OTHER -> [run |-> run, out |-> out]

\* A harmonizer case that emits moduleStart inside the if (result.outcomes).
EnterCaseStartInsideIf(id, run, out) ==
  LET m == CurrentModule(run) IN
  CASE m \in {"full-pdf", "tables", "imaging", "citations"} ->
         [run |-> Invoke(run, m, "pdfBase64"),
          out |-> Append(out, Ev(id, "moduleStart", m, None, None))]
    [] m = "harmonizer" ->
         IF HasOutcomes(run.result)
           THEN [run |-> Invoke(run, m, run.result.outcomes),
                 out |-> Append(out, Ev(id, "moduleStart", m, None, None))]
           ELSE [run |-> run, out |-> out]
    [] OTHER -> [run |-> run, out |-> out]

\* A switch with a default case that emits moduleStart for any other name.
EnterCaseDefaultStart(id, run, out) ==
  LET m == CurrentModule(run) IN
  CASE m \in {"full-pdf", "tables", "imaging", "citations"} ->
         [run |-> Invoke(run, m, "pdfBase64"),
          out |-> Append(out, Ev(id, "moduleStart", m, None, None))]
    [] m = "harmonizer" ->
         [run |-> IF HasOutcomes(run.result)
                    THEN Invoke(run, m, run.result.outcomes)
                    ELSE run,
          out |-> Append(out, Ev(id, "moduleStart", m, None, None))]
    [] OTHER -> [run |-> run, out |-> Append(out, Ev(id, "moduleStart", m, None, None))]

\* switch (moduleName): the statements of the matching case up to its await.
\* No case matches a name outside the five, and there is no default.
EnterCase(id, run, out) ==
  LET m == CurrentModule(run) IN
  CASE m \in {"full-pdf", "tables", "imaging", "citations"} ->
         [run |-> Invoke(run, m, "pdfBase64"),
          out |-> Append(out, Ev(id, "moduleStart", m, None, None))]
    [] m = "harmonizer" ->
         [run |-> IF HasOutcomes(run.result)
                    THEN Invoke(run, m, run.result.outcomes)
                    ELSE run,
          out |-> Append(out, Ev(id, "moduleStart", m, None, None))]
    [] OTHER -> [run |-> run, out |-> out]

\* An ending that emits the progress event after extractionComplete.
CompleteProgressLast(id, run, out) ==
  [run |-> [run EXCEPT !.pc = "done"],
   out |-> out \o
     << Ev(id, "extractionComplete", None, None,
           [success |-> TRUE, data |-> run.result, modulesExecuted |-> run.modules]),
        Ev(id, "progress", "complete", Rat(100, 1), None) >>]

\* The statements after the loop: progress 'complete' and extractionComplete.
Complete(id, run, out) ==
  [run |-> [run EXCEPT !.pc = "done"],
   out |-> out \o
     << Ev(id, "progress", "complete", Rat(100, 1), None),
        Ev(id, "extractionComplete", None, None,
           [success |-> TRUE, data |-> run.result, modulesExecuted |-> run.modules]) >>]

\* The for loop from its head, run until the handler suspends in an await
\* or returns.
RECURSIVE LoopFrom(_, _, _)
LoopFrom(id, run, out) ==
  IF run.completedModules >= Len(run.modules)
    THEN Complete(id, run, out)
    ELSE LET m == CurrentModule(run)
             e == EnterCase(id, run,
                    Append(out, Ev(id, "progress", m,
                                   BasePercent(run.completedModules, Len(run.modules)),
                                   None)))
         IN IF e.run.pc = "await"
              THEN e
              ELSE LoopFrom(id, [e.run EXCEPT !.completedModules = @ + 1], e.out)

\* A per-module catch that treats the failure like the outer catch does.
CatchModuleErrorAbort(id, run) ==
  [run |-> [Settled(run, "rejected", None) EXCEPT !.pc = "failed"],
   out |-> << Ev(id, "error", None, None, "Extraction failed") >>]

\* A per-module catch that swallows the failure without an event.
CatchModuleErrorSilent(id, run) ==
  LoopFrom(id, [Settled(run, "rejected", None) EXCEPT !.completedModules = @ + 1], <<>>)

\* catch (moduleError): emit moduleError, then completedModules++ and loop on.
CatchModuleError(id, run) ==
  LoopFrom(id, [Settled(run, "rejected", None) EXCEPT !.completedModules = @ + 1],
           << Ev(id, "moduleError", CurrentModule(run), None, None) >>)

\* A resumption whose moduleComplete is emitted only after the loop has gone on.
ResumeCaseLateComplete(id, run, res) ==
  LET m == CurrentModule(run)
      a == AfterAwait(m, run.result, res)
      h == LoopFrom(id,
                    [Settled(run, "fulfilled", res) EXCEPT !.result = a.result,
                                                      !.calls[Len(run.calls)].threw = a.thrown,
                                                      !.completedModules = @ + 1],
                    <<>>)
  IN [run |-> h.run,
      out |-> h.out \o
        (IF a.thrown
           THEN << Ev(id, "moduleError", m, None, None) >>
           ELSE << Ev(id, "moduleComplete", m, None, a.data) >>)]

\* The awaited promise fulfils: the rest of the case (or, if it throws, the
\* catch), then completedModules++.
ResumeCase(id, run, res) ==
  LET m == CurrentModule(run)
      a == AfterAwait(m, run.result, res)
  IN LoopFrom(id,
              [Settled(run, "fulfilled", res) EXCEPT !.result = a.result,
                                                !.calls[Len(run.calls)].threw = a.thrown,
                                                !.completedModules = @ + 1],
              IF a.thrown
                THEN << Ev(id, "moduleError", m, None, None) >>
                ELSE << Ev(id, "moduleComplete", m, None, a.data) >>)

\* A handler that announces the read before it checks that the file exists.
HandleStartReadingFirst(id, c, exists, readable, modules) ==
  LET run0 == [conn |-> c, exists |-> exists, modules |-> modules, pc |-> "running",
               completedModules |-> 0, result |-> <<>>, calls |-> <<>>]
      reading == Ev(id, "progress", "reading", Rat(5, 1), None)
  IN IF ~exists \/ ~readable
       THEN [run |-> [run0 EXCEPT !.pc = "failed"],
             out |-> << reading, Ev(id, "error", None, None, "File not found") >>]
     ELSE LoopFrom(id, run0, << reading >>)

\* A handler whose result object is declared outside it: a later run starts
\* from what the run before it has accumulated.
HandleStartSharedResult(id, c, exists, readable, modules) ==
  LET run0 == [conn |-> c, exists |-> exists, modules |-> modules, pc |-> "running",
               completedModules |-> 0,
               result |-> IF runs = <<>> THEN <<>> ELSE runs[Len(runs)].result,
               calls |-> <<>>]
      reading == Ev(id, "progress", "reading", Rat(5, 1), None)
  IN IF ~exists
       THEN [run |-> [run0 EXCEPT !.pc = "failed"],
             out |-> << Ev(id, "error", None, None, "File not found") >>]
     ELSE IF ~readable
       THEN [run |-> [run0 EXCEPT !.pc = "failed"],
             out |-> << reading, Ev(id, "error", None, None, "read") >>]
     ELSE LoopFrom(id, run0, << reading >>)

\* A handler that emits the 'reading' progress only once the file is read.
HandleStartLoadFirst(id, c, exists, readable, modules) ==
  LET run0 == [conn |-> c, exists |-> exists, modules |-> modules, pc |-> "running",
               completedModules |-> 0, result |-> <<>>, calls |-> <<>>]
      reading == Ev(id, "progress", "reading", Rat(5, 1), None)
  IN IF ~exists
       THEN [run |-> [run0 EXCEPT !.pc = "failed"],
             out |-> << Ev(id, "error", None, None, "File not found") >>]
     ELSE IF ~readable
       THEN [run |-> [run0 EXCEPT !.pc = "failed"],
             out |-> << Ev(id, "error", None, None, "read") >>]
     ELSE LoopFrom(id, run0, << reading >>)

\* The handler from its first statement, for a command {filename, modules}.
\* exists: what existsSync(pdfPath) returns; readable: whether the later
\* readFileSync(pdfPath) succeeds.
HandleStart(id, c, exists, readable, modules) ==
  LET run0 == [conn |-> c, exists |-> exists, modules |-> modules, pc |-> "running",
               completedModules |-> 0, result |-> <<>>, calls |-> <<>>]
      reading == Ev(id, "progress", "reading", Rat(5, 1), None)
  IN IF ~exists
       THEN [run |-> [run0 EXCEPT !.pc = "failed"],
             out |-> << Ev(id, "error", None, None, "File not found") >>]
     ELSE IF ~readable
       THEN [run |-> [run0 EXCEPT !.pc = "failed"],
             out |-> << reading, Ev(id, "error", None, None, "read") >>]
     ELSE LoopFrom(id, run0, << reading >>)

\* -------------------------------------------------------------- actions
Init ==
  /\ conn = [c \in Conns |-> "none"]
  /\ runs = <<>>
  /\ emitted = [c \in Conns |-> <<>>]

\* io.on('connection')
Connect(c) ==
  /\ conn[c] = "none"
  /\ conn' = [conn EXCEPT ![c] = "connected"]
  /\ UNCHANGED <<runs, emitted>>

\* socket.on('disconnect'): the handler only logs.
Disconnect(c) ==
  /\ conn[c] = "connected"
  /\ conn' = [conn EXCEPT ![c] = "disconnected"]
  /\ UNCHANGED <<runs, emitted>>

Commit(h) ==
  /\ emitted' = [emitted EXCEPT ![h.run.conn] = @ \o h.out]
  /\ UNCHANGED conn

RECURSIVE StagesRequested(_)
StagesRequested(n) ==
  IF n = 0 THEN 0 ELSE StagesRequested(n - 1) + Len(runs[n].modules)

\* The module lists a further command may carry within the bounds.
Commandable ==
  LET left == (IF runs = <<>> THEN MaxLen ELSE MaxStages) - StagesRequested(Len(runs))
  IN IF Len(runs) < MaxRuns /\ left >= 0 THEN ListsUpTo[left] ELSE {}

\* socket.on('startExtraction')
StartExtraction(c, exists, readable, modules) ==
  /\ conn[c] = "connected"
  /\ modules \in Commandable
  /\ LET h == HandleStart(Len(runs) + 1, c, exists, readable, modules)
     IN /\ runs' = Append(runs, h.run)
        /\ Commit(h)

\* The call run id is suspended in can still settle.
Pending(id) ==
  /\ id \in DOMAIN runs
  /\ runs[id].pc = "await"
  /\ runs[id].calls[Len(runs[id].calls)].outcome = "pending"

\* The awaited extractor promise of run id fulfils with some value.
Resolve(id) ==
  /\ Pending(id)
  /\ \E res \in ResultsOf(CurrentModule(runs[id])) :
       LET h == ResumeCase(id, runs[id], res)
       IN /\ runs' = [runs EXCEPT ![id] = h.run]
          /\ Commit(h)

\* The awaited extractor promise of run id rejects.
Reject(id) ==
  /\ Pending(id)
  /\ LET h == CatchModuleError(id, runs[id])
     IN /\ runs' = [runs EXCEPT ![id] = h.run]
        /\ Commit(h)

Next ==
  \/ \E c \in Conns : Connect(c)
  \/ \E c \in Conns : Disconnect(c)
  \/ \E c \in {k \in Conns : conn[k] = "connected"} :
       \E modules \in Commandable, exists \in BOOLEAN, readable \in BOOLEAN :
         StartExtraction(c, exists, readable, modules)
  \/ \E id \in DOMAIN runs : Resolve(id)
  \/ \E id \in DOMAIN runs : Reject(id)

Spec == Init /\ [][Next]_vars

\* The extractor run id awaits turns out never to settle.  The handler sets
\* no timer and passes no abort signal, so nothing else resumes it.
NeverSettles(id) ==
  /\ Pending(id)
  /\ runs' = [runs EXCEPT ![id].calls[Len(runs[id].calls)].outcome = "never"]
  /\ UNCHANGED <<conn, emitted>>

NextLive ==
  \/ Next
  \/ \E id \in DOMAIN runs : NeverSettles(id)

\* The event loop resumes a handler whose awaited promise can settle.
SpecLive ==
  /\ Init
  /\ [][NextLive]_vars
  /\ \A id \in 1..MaxRuns : WF_vars(Resolve(id) \/ Reject(id))

\* ------------------------------------------------- observing the runs
\* The socket.emit calls run id made, in order.
RunEvents(id) ==
  LET Mine(e) == e.run = id IN SelectSeq(emitted[runs[id].conn], Mine)

OfType(evs, types) ==
  LET Is(e) == e.type \in types IN SelectSeq(evs, Is)

ModulesOf(s) == [i \in 1..Len(s) |-> s[i].module]

CallsWith(run, outcomes) ==
  LET Is(call) == call.outcome \in outcomes IN SelectSeq(run.calls, Is)

\* Calls whose module failed: the promise rejected, or the statements after
\* the await threw.
FailedCalls(run) ==
  LET Is(call) == call.outcome = "rejected" \/ call.threw IN SelectSeq(run.calls, Is)

CountIn(modules, names) == Cardinality({i \in 1..Len(modules) : modules[i] \in names})

KnownModules == ModuleNames \ {"other"}

\* events ends with progress(percent = 100) then extractionComplete
EndsComplete(evs) ==
  /\ Len(evs) >= 2
  /\ evs[Len(evs)].type = "extractionComplete"
  /\ evs[Len(evs) - 1].type = "progress"
  /\ RatEq(evs[Len(evs) - 1].percent, Rat(100, 1))

\* ---------------------------------------------------------------- C1
\* C1: a module whose extractor call fails gets a moduleError event of its
\* own and nothing else changes course: the moduleError events of a run name
\* exactly the failed calls, in order; a run that has invoked any
\* extractor never fails and never emits 'error'; and a run that got past
\* the read reaches its end having entered the case of every known module
\* of its list, its events ending with progress(100), extractionComplete.
StageFailureIsolated ==
  \A id \in DOMAIN runs :
    LET run == runs[id]
        evs == RunEvents(id)
    IN /\ ModulesOf(OfType(evs, {"moduleError"})) = ModulesOf(FailedCalls(run))
       /\ run.calls # <<>> => run.pc # "failed" /\ OfType(evs, {"error"}) = <<>>
       /\ run.pc = "done" =>
            /\ EndsComplete(evs)
            /\ Len(OfType(evs, {"extractionComplete"})) = 1
            /\ run.completedModules = Len(run.modules)
            /\ Len(OfType(evs, {"moduleStart"})) = CountIn(run.modules, KnownModules)

\* A finished run whose first module failed and whose second was still invoked.
StageFailureIsolatedWitness ==
  \E id \in DOMAIN runs :
    /\ runs[id].pc = "done"
    /\ Len(runs[id].calls) = 2
    /\ runs[id].calls[1].outcome = "rejected"

\* ---------------------------------------------------------------- C2
\* C2: the percent values of a run's progress events never decrease, and a
\* run that emits extractionComplete emits progress with percent 100 just
\* before it.
ProgressMonotone ==
  \A id \in DOMAIN runs :
    LET evs == RunEvents(id)
        prog == OfType(evs, {"progress"})
    IN /\ \A i \in 1..Len(prog) : \A j \in i..Len(prog) :
            RatLeq(prog[i].percent, prog[j].percent)
       /\ \A k \in 1..Len(evs) :
            evs[k].type = "extractionComplete" =>
              /\ k > 1
              /\ evs[k - 1].type = "progress"
              /\ RatEq(evs[k - 1].percent, Rat(100, 1))
              /\ prog[Len(prog)] = evs[k - 1]

\* A finished run of two modules, the first of which failed: four progress events.
ProgressMonotoneWitness ==
  \E id \in DOMAIN runs :
    /\ runs[id].pc = "done"
    /\ Len(runs[id].modules) = 2
    /\ Len(OfType(RunEvents(id), {"moduleError"})) = 1
    /\ Len(OfType(RunEvents(id), {"progress"})) = 4

\* ---------------------------------------------------------------- C3
\* C3: a command whose file does not exist makes the run emit one 'error'
\* event and nothing else, and invoke no extractor.
NotFoundSingleError ==
  \A id \in DOMAIN runs :
    ~runs[id].exists =>
      /\ Len(RunEvents(id)) = 1
      /\ RunEvents(id)[1].type = "error"
      /\ runs[id].calls = <<>>
      /\ runs[id].pc = "failed"

\* A not-found command with a non-empty module list, after other activity on
\* the same socket.
NotFoundSingleErrorWitness ==
  \E id \in DOMAIN runs :
    /\ ~runs[id].exists
    /\ runs[id].modules # <<>>
    /\ Len(emitted[runs[id].conn]) > 1

\* ---------------------------------------------------------------- C4
InFlight(id) == runs[id].pc = "await"

\* C4: on one connection at most one run is suspended in an extractor call
\* at any time.
SingleRunPerConnection ==
  \A a \in DOMAIN runs : \A b \in DOMAIN runs :
    (a # b /\ runs[a].conn = runs[b].conn) => ~(InFlight(a) /\ InFlight(b))

\* ---------------------------------------------------------------- C5
\* C5: once a socket has disconnected, no step emits on it and no run of it
\* invokes an extractor.
NoActivityAfterDisconnect ==
  [][\A c \in Conns :
       conn[c] = "disconnected" =>
         /\ emitted'[c] = emitted[c]
         /\ \A id \in DOMAIN runs :
              runs[id].conn = c => Len(runs'[id].calls) = Len(runs[id].calls)]_vars

\* ---------------------------------------------------------------- C6
\* Harmonizer modules of the list that were reached without result.outcomes:
\* those of the list less those that made the call.
HarmonizerCalls(run) ==
  LET Is(call) == call.module = "harmonizer" IN SelectSeq(run.calls, Is)

NoOps(run) == CountIn(run.modules, {"harmonizer"}) - Len(HarmonizerCalls(run))

\* C6 as stated: a finished run has as many moduleStart events as
\* moduleComplete and moduleError events together.
StartsEqualOutcomes ==
  \A id \in DOMAIN runs :
    runs[id].pc = "done" =>
      Len(OfType(RunEvents(id), {"moduleStart"}))
        = Len(OfType(RunEvents(id), {"moduleComplete", "moduleError"}))

\* C6 amended: a finished run has as many moduleStart events as moduleComplete
\* and moduleError events together plus the harmonizer modules that were
\* reached while result.outcomes was not set.
StartsEqualOutcomesPlusNoOps ==
  \A id \in DOMAIN runs :
    runs[id].pc = "done" =>
      Len(OfType(RunEvents(id), {"moduleStart"}))
        = Len(OfType(RunEvents(id), {"moduleComplete", "moduleError"}))
            + NoOps(runs[id])

\* A finished run with a failed module and a harmonizer that did nothing.
StartsEqualOutcomesPlusNoOpsWitness ==
  \E id \in DOMAIN runs :
    /\ runs[id].pc = "done"
    /\ NoOps(runs[id]) = 1
    /\ Len(OfType(RunEvents(id), {"moduleError"})) = 1

\* ---------------------------------------------------------------- C7
\* C7: a finished run whose list of n modules holds known names only has
\* emitted n moduleStart events, and its moduleComplete and moduleError
\* events number n less the harmonizer modules that did nothing.
KnownListCounts ==
  \A id \in DOMAIN runs :
    LET run == runs[id]
        evs == RunEvents(id)
        n == Len(run.modules)
    IN (run.pc = "done" /\ CountIn(run.modules, KnownModules) = n) =>
         /\ Len(OfType(evs, {"moduleStart"})) = n
         /\ Len(OfType(evs, {"moduleComplete"})) + Len(OfType(evs, {"moduleError"}))
              = n - NoOps(run)

\* A finished run of two known modules, one of them a harmonizer that did nothing.
KnownListCountsWitness ==
  \E id \in DOMAIN runs :
    /\ runs[id].pc = "done"
    /\ Len(runs[id].modules) = 2
    /\ CountIn(runs[id].modules, KnownModules) = 2
    /\ NoOps(runs[id]) = 1
    /\ Len(runs[id].calls) = 1

\* ---------------------------------------------------------------- C8
\* The data of the run's extractionComplete event.
Snapshot(id) == OfType(RunEvents(id), {"extractionComplete"})[1].data.data

OfModule(evs, m) ==
  LET Is(e) == e.module = m IN SelectSeq(evs, Is)

\* C8: harmonizeOutcomes is called only while result holds outcomes, and with
\* that value; a finished run has one moduleStart per harmonizer module of its
\* list but moduleComplete/moduleError only for the calls made; a finished
\* run that never called it delivers no harmonized_outcomes, and one whose
\* list holds nothing but harmonizer modules delivers an empty result.
HarmonizerOnlyWithOutcomes ==
  \A id \in DOMAIN runs :
    LET run == runs[id]
        evs == RunEvents(id)
    IN /\ (InFlight(id) /\ CurrentModule(run) = "harmonizer") =>
            /\ "outcomes" \in DOMAIN run.result
            /\ run.calls[Len(run.calls)].arg = run.result.outcomes
       /\ HarmonizerCalls(run) # <<>> => "outcomes" \in DOMAIN run.result
       /\ run.pc = "done" =>
            /\ Len(OfModule(OfType(evs, {"moduleStart"}), "harmonizer"))
                 = CountIn(run.modules, {"harmonizer"})
            /\ Len(OfModule(OfType(evs, {"moduleComplete", "moduleError"}), "harmonizer"))
                 = Len(HarmonizerCalls(run))
            /\ HarmonizerCalls(run) = <<>> =>
                 "harmonized_outcomes" \notin DOMAIN Snapshot(id)
            /\ CountIn(run.modules, {"harmonizer"}) = Len(run.modules) =>
                 DOMAIN Snapshot(id) = {}

\* A finished run that listed the harmonizer before full-pdf, whose result
\* holds outcomes.
HarmonizerOnlyWithOutcomesWitness ==
  \E id \in DOMAIN runs :
    /\ runs[id].pc = "done"
    /\ runs[id].modules = <<"harmonizer", "full-pdf">>
    /\ "outcomes" \in DOMAIN Snapshot(id)
    /\ "harmonized_outcomes" \notin DOMAIN Snapshot(id)

\* ---------------------------------------------------------------- C9
\* C9: in a run of [full-pdf, harmonizer] whose full-pdf extractor resolved
\* with outcomes, harmonizeOutcomes is called with that value; and when that
\* call resolves, the delivered result holds harmonized_outcomes, equal to the
\* harmonized value it resolved with.
HarmonizerGetsOutcomes ==
  \A id \in DOMAIN runs :
    LET run == runs[id] IN
    (/\ run.modules = <<"full-pdf", "harmonizer">>
     /\ run.calls # <<>>
     /\ run.calls[1].outcome = "fulfilled"
     /\ "outcomes" \in DOMAIN run.calls[1].value) =>
       /\ Len(run.calls) = 2
       /\ run.calls[2].module = "harmonizer"
       /\ run.calls[2].arg = run.calls[1].value.outcomes
       /\ run.calls[2].outcome = "fulfilled" =>
            /\ run.pc = "done"
            /\ "harmonized_outcomes" \in DOMAIN Snapshot(id)
            /\ Snapshot(id).harmonized_outcomes = run.calls[2].value.harmonized

\* Such a run, finished, with the second of the two outcomes values.
HarmonizerGetsOutcomesWitness ==
  \E id \in DOMAIN runs :
    /\ runs[id].modules = <<"full-pdf", "harmonizer">>
    /\ runs[id].pc = "done"
    /\ Len(runs[id].calls) = 2
    /\ runs[id].calls[2].outcome = "fulfilled"
    /\ runs[id].calls[2].arg = 2

\* --------------------------------------------------------------- C10
\* C10: citations metadata derived from an empty citation list has
\* average_quality 0, total_extracted 0 and valid_citations 0.
EmptyCitationsAverageZero ==
  \A id \in DOMAIN runs :
    LET result == runs[id].result IN
    ("citations_metadata" \in DOMAIN result /\ result.citations = <<>>) =>
      /\ result.citations_metadata.total_extracted = 0
      /\ result.citations_metadata.valid_citations = 0
      /\ result.citations_metadata.average_quality.kind = "finite"
      /\ result.citations_metadata.average_quality.num = 0

\* --------------------------------------------------------------- C11
\* The calls of a run that have settled, in order.
SettledCalls(run) == CallsWith(run, {"fulfilled", "rejected"})

RECURSIVE SumScores(_)
SumScores(citations) ==
  IF citations = <<>> THEN 0
  ELSE citations[1].quality_score + SumScores(Tail(citations))

RECURSIVE CountAbove(_, _)
CountAbove(citations, threshold) ==
  IF citations = <<>> THEN 0
  ELSE (IF citations[1].quality_score > threshold THEN 1 ELSE 0)
         + CountAbove(Tail(citations), threshold)

\* C11: right after extractCitations has resolved with k >= 1 citations, the
\* result holds that sequence as citations, and citations_metadata with
\* total_extracted = k, valid_citations = the number of scores above 0.7,
\* average_quality = (sum of the scores) / k and duplicates_removed = 0.
CitationsMetadataCorrect ==
  \A id \in DOMAIN runs :
    LET run == runs[id]
        done == SettledCalls(run)
        last == done[Len(done)]
    IN (/\ done # <<>>
        /\ last.module = "citations"
        /\ last.outcome = "fulfilled"
        /\ "citations" \in DOMAIN last.value
        /\ Len(last.value.citations) >= 1) =>
          LET cits == last.value.citations
              meta == run.result.citations_metadata
          IN /\ run.result.citations = cits
             /\ meta.total_extracted = Len(cits)
             /\ meta.valid_citations = CountAbove(cits, 7)
             /\ meta.average_quality.kind = "finite"
             /\ RatEq(meta.average_quality, Rat(SumScores(cits), Len(cits)))
             /\ meta.duplicates_removed = 0

\* A run whose extractCitations resolved with one citation of score exactly 0.7.
CitationsMetadataCorrectWitness ==
  \E id \in DOMAIN runs :
    /\ "citations_metadata" \in DOMAIN runs[id].result
    /\ runs[id].result.citations_metadata.total_extracted = 1
    /\ runs[id].result.citations_metadata.valid_citations = 0

\* --------------------------------------------------------------- C12
\* What the settled calls of a run, taken alone and in order, make of an
\* empty result.
RECURSIVE OwnMerge(_, _)
OwnMerge(run, n) ==
  IF n = 0 THEN <<>>
  ELSE LET call == run.calls[n]
           before == OwnMerge(run, n - 1)
       IN IF call.outcome = "fulfilled"
            THEN AfterAwait(call.module, before, call.value).result
            ELSE before

\* C12: the result of every run is what its own extractor calls make of an
\* empty result, whatever other runs do meanwhile; the result it delivers is
\* that too; and every event is emitted on the socket of the run that emits it.
RunsIsolated ==
  /\ \A id \in DOMAIN runs :
       /\ runs[id].result = OwnMerge(runs[id], Len(runs[id].calls))
       /\ runs[id].pc = "done" => Snapshot(id) = runs[id].result
  /\ \A c \in Conns : \A k \in 1..Len(emitted[c]) :
       runs[emitted[c][k].run].conn = c

\* Two runs on two sockets: the later one has finished with a result while
\* the earlier one is still suspended in its extractor call.
RunsIsolatedWitness ==
  /\ Len(runs) = 2
  /\ runs[1].conn # runs[2].conn
  /\ runs[1].pc = "await"
  /\ runs[2].pc = "done"
  /\ DOMAIN runs[2].result # {}

\* --------------------------------------------------------------- C13
\* C13: a run emits at most one terminal event (extractionComplete or error)
\* and nothing after it; a run that failed has emitted one error and no
\* extractionComplete, a finished run one extractionComplete and no error.
SingleTerminalEvent ==
  \A id \in DOMAIN runs :
    LET evs == RunEvents(id)
        terminal == OfType(evs, {"extractionComplete", "error"})
    IN /\ Len(terminal) <= 1
       /\ Len(terminal) = 1 => evs[Len(evs)].type \in {"extractionComplete", "error"}
       /\ runs[id].pc = "failed" => Len(terminal) = 1 /\ terminal[1].type = "error"
       /\ runs[id].pc = "done" =>
            Len(terminal) = 1 /\ terminal[1].type = "extractionComplete"
       /\ runs[id].pc = "await" => terminal = <<>>

\* A run whose file existed but could not be read: progress, then error.
SingleTerminalEventWitness ==
  \E id \in DOMAIN runs :
    /\ runs[id].pc = "failed"
    /\ runs[id].exists
    /\ Len(RunEvents(id)) = 2

\* --------------------------------------------------------------- C14
\* C14: every run that got past the read and into an extractor call
\* eventually emits a terminal event.
EveryRunTerminates ==
  \A id \in 1..MaxRuns :
    (id \in DOMAIN runs /\ runs[id].pc = "await")
      ~> (id \in DOMAIN runs /\ runs[id].pc \in {"done", "failed"})

\* --------------------------------------------------------------- C15
\* The first event run id emits in this step, if it emits one, is of the type.
FirstNewEventIs(id, type) ==
  LET c == runs[id].conn
      old == Len(emitted[c])
  IN /\ Len(emitted'[c]) > old
     /\ emitted'[c][old + 1].run = id
     /\ emitted'[c][old + 1].type = type

\* C15: a step in which a module of a run ends with moduleError leaves that
\* run's result as it was.
FailedStageLeavesResult ==
  [][\A id \in DOMAIN runs :
       FirstNewEventIs(id, "moduleError") => runs'[id].result = runs[id].result]_vars

\* --------------------------------------------------------------- C16
StageProgress(evs) ==
  LET Is(e) == e.type = "progress" /\ e.module \in ModuleNames IN SelectSeq(evs, Is)

\* C16: the progress events of a run name its modules in list order, one per
\* module reached; moduleStart follows at once on the progress event of its
\* module; a moduleComplete or moduleError follows at once on the moduleStart
\* of its module (so a module gets at most one of them); only a harmonizer's
\* moduleStart is followed by the next progress event; only the last call of
\* a run is unsettled, and while it is, its moduleStart is the run's last event.
StagesSequential ==
  \A id \in DOMAIN runs :
    LET run == runs[id]
        evs == RunEvents(id)
        reached == CASE run.pc = "await" -> run.completedModules + 1
                     [] run.pc = "done" -> Len(run.modules)
                     [] OTHER -> 0
    IN /\ ModulesOf(StageProgress(evs)) = SubSeq(run.modules, 1, reached)
       /\ \A k \in 1..Len(evs) :
            /\ evs[k].type = "moduleStart" =>
                 /\ k > 1
                 /\ evs[k - 1].type = "progress"
                 /\ evs[k - 1].module = evs[k].module
            /\ evs[k].type \in {"moduleComplete", "moduleError"} =>
                 /\ k > 1
                 /\ evs[k - 1].type = "moduleStart"
                 /\ evs[k - 1].module = evs[k].module
            /\ (evs[k].type = "progress" /\ k > 1 /\ evs[k - 1].type = "moduleStart") =>
                 evs[k - 1].module = "harmonizer"
       /\ \A i \in 1..(Len(run.calls) - 1) :
            run.calls[i].outcome \in {"fulfilled", "rejected"}
       /\ run.pc = "await" =>
            /\ evs[Len(evs)].type = "moduleStart"
            /\ evs[Len(evs)].module = run.calls[Len(run.calls)].module
            /\ evs[Len(evs)].module = CurrentModule(run)

\* A finished run of three modules with both a completed and a failed one.
StagesSequentialWitness ==
  \E id \in DOMAIN runs :
    /\ runs[id].pc = "done"
    /\ Len(runs[id].modules) = 3
    /\ OfType(RunEvents(id), {"moduleComplete"}) # <<>>
    /\ OfType(RunEvents(id), {"moduleError"}) # <<>>

\* --------------------------------------------------------------- C17
KnownOf(modules) ==
  LET Is(m) == m \in KnownModules IN SelectSeq(modules, Is)

\* C17 as stated: a finished run has emitted a progress event and a
\* moduleStart event for every module of its list, unknown names included.
EveryStageStarted ==
  \A id \in DOMAIN runs :
    runs[id].pc = "done" =>
      /\ ModulesOf(StageProgress(RunEvents(id))) = runs[id].modules
      /\ ModulesOf(OfType(RunEvents(id), {"moduleStart"})) = runs[id].modules

\* C17 amended: a finished run has emitted a progress event for every module
\* of its list and a moduleStart for the known ones only; a name no case
\* matches gets no moduleStart, moduleComplete or moduleError and makes no
\* call, is still counted in completedModules, and the run goes on; a list
\* of such names alone delivers an empty result.
UnknownStageSkipped ==
  \A id \in DOMAIN runs :
    LET run == runs[id]
        evs == RunEvents(id)
        Named(e) == e.type \in {"moduleStart", "moduleComplete", "moduleError"}
    IN /\ \A k \in 1..Len(evs) : Named(evs[k]) => evs[k].module \in KnownModules
       /\ \A i \in 1..Len(run.calls) : run.calls[i].module \in KnownModules
       /\ run.pc = "done" =>
            /\ ModulesOf(StageProgress(evs)) = run.modules
            /\ ModulesOf(OfType(evs, {"moduleStart"})) = KnownOf(run.modules)
            /\ run.completedModules = Len(run.modules)
            /\ KnownOf(run.modules) = <<>> =>
                 DOMAIN Snapshot(id) = {} /\ run.calls = <<>>

\* A finished run whose list starts with an unknown name and goes on to a
\* module that completed.
UnknownStageSkippedWitness ==
  \E id \in DOMAIN runs :
    /\ runs[id].pc = "done"
    /\ Len(runs[id].modules) >= 2
    /\ runs[id].modules[1] = "other"
    /\ OfType(RunEvents(id), {"moduleComplete"}) # <<>>

\* --------------------------------------------------------------- C18
\* C18 as stated: no run emits a progress event and later an error event.
ProgressOnlyAfterLoad ==
  \A id \in DOMAIN runs :
    OfType(RunEvents(id), {"progress"}) # <<>> => OfType(RunEvents(id), {"error"}) = <<>>

\* C18 amended: the 'reading' progress event (percent 5) is the first event
\* of every run whose file was found, emitted before the file is read; a run
\* whose read then fails has emitted that event and one error event, nothing
\* else, and called no extractor; a run whose file was not found emits no
\* progress event.
ReadingAnnouncedBeforeLoad ==
  \A id \in DOMAIN runs :
    LET run == runs[id]
        evs == RunEvents(id)
    IN /\ run.exists =>
            /\ evs[1].type = "progress"
            /\ evs[1].module = "reading"
            /\ RatEq(evs[1].percent, Rat(5, 1))
       /\ (run.exists /\ run.pc = "failed") =>
            /\ Len(evs) = 2
            /\ evs[2].type = "error"
            /\ run.calls = <<>>
       /\ ~run.exists => OfType(evs, {"progress"}) = <<>>

\* A run whose file was found but whose read failed, with a non-empty list.
ReadingAnnouncedBeforeLoadWitness ==
  \E id \in DOMAIN runs :
    /\ runs[id].exists
    /\ runs[id].pc = "failed"
    /\ runs[id].modules # <<>>

\* --------------------------------------------------------------- C19
Fields ==
  {"study", "outcomes", "tables", "imaging", "harmonized_outcomes",
   "citations", "citations_metadata"}

Succeeded(call) == call.outcome = "fulfilled" /\ ~call.threw

\* The fields of result a module owns; full-pdf writes those of its value.
WrittenBy(call) ==
  CASE call.module = "full-pdf" -> DOMAIN call.value
    [] call.module = "tables" -> {"tables"}
    [] call.module = "imaging" -> {"imaging"}
    [] call.module = "harmonizer" -> {"harmonized_outcomes"}
    [] call.module = "citations" -> {"citations", "citations_metadata"}

\* A finished run delivers, for every field two or more of its successful
\* modules wrote, the value the last of them wrote.
LaterWriterWins ==
  \A id \in DOMAIN runs :
    runs[id].pc = "done" =>
      \A f \in Fields :
        LET calls == runs[id].calls
            writers == {i \in 1..Len(calls) :
                          Succeeded(calls[i]) /\ f \in WrittenBy(calls[i])}
            last == CHOOSE i \in writers : \A j \in writers : j <= i
        IN Cardinality(writers) >= 2 =>
             /\ f \in DOMAIN Snapshot(id)
             /\ Snapshot(id)[f] =
                  AfterAwait(calls[last].module, <<>>, calls[last].value).result[f]

\* C19: a step in which a module of a run ends with moduleComplete changes
\* only the fields that module owns (tables; imaging; citations and
\* citations_metadata) or, for full-pdf, sets every field of its value and
\* no other; and a finished run delivers, for a field two successful modules
\* wrote, the value of the later one.
SuccessfulStageFrame ==
  [][/\ \A id \in DOMAIN runs :
          FirstNewEventIs(id, "moduleComplete") =>
            LET call == runs'[id].calls[Len(runs[id].calls)]
                old == runs[id].result
                new == runs'[id].result
            IN /\ DOMAIN new = DOMAIN old \cup WrittenBy(call)
               /\ \A f \in DOMAIN old \ WrittenBy(call) : new[f] = old[f]
               /\ call.module = "full-pdf" =>
                    \A f \in DOMAIN call.value : new[f] = call.value[f]
     /\ LaterWriterWins']_vars

\* --------------------------------------------------------------- C20
RECURSIVE MergeOfSucceeded(_, _)
MergeOfSucceeded(run, n) ==
  IF n = 0 THEN <<>>
  ELSE LET call == run.calls[n]
           before == MergeOfSucceeded(run, n - 1)
       IN IF Succeeded(call)
            THEN AfterAwait(call.module, before, call.value).result
            ELSE before

\* C20: the extractionComplete event of a run carries success = true, as data
\* the result after the last module, which is the merge in list order of
\* the modules that succeeded and of no other, and as modulesExecuted the
\* requested list as it was given.
CompleteCarriesMergeOfSucceeded ==
  \A id \in DOMAIN runs :
    runs[id].pc = "done" =>
      LET payload == OfType(RunEvents(id), {"extractionComplete"})[1].data
      IN /\ payload.success = TRUE
         /\ payload.modulesExecuted = runs[id].modules
         /\ payload.data = runs[id].result
         /\ payload.data = MergeOfSucceeded(runs[id], Len(runs[id].calls))

====
